---- MODULE Spec2Model ----
(***************************************************************************)
(* Model of bot.py: the "orders" table behind the leaderboard bot, the    *)
(* five store helpers (_add_count, _set_count, _remove_user, _reset_all,   *)
(* _top_n) run as independent SQLAlchemy sessions in worker threads, and   *)
(* the role-gated command handlers that call them.                         *)
(*                                                                         *)
(* A store helper is a sequence of database interactions: the SELECT, the  *)
(* flush+commit, and (for _add_count/_set_count) the refresh of the        *)
(* expired row behind "return row.count".  Each interaction is one atomic  *)
(* step; steps of different threads interleave.                            *)
(***************************************************************************)
EXTENDS Integers, Sequences, FiniteSets, TLC

\* ------------------------------------------------------------------ bounds
MaxCount == 2
MaxId == 2

Threads == {"t1", "t2"}
Guilds == {1, 2}
Users == {1, 2}
NoGuild == 0
\* the members of each guild; outside a guild (a direct message) any user may call
Members(g) == IF g = 2 THEN {1} ELSE Users
Names == {"ann", "bob"}
\* the inputs of the runs with two concurrent invocations
OneThread == {"t1"}
OneGuild == {1}
OneUser == {1}
OneName == {"ann"}
Deltas == {-1, 1}
StoreValues == {-1, 0, 2}
StoreNames == {"", "ann", "bob"}
Values == {-1, 0, 1, 2}
Limits == 0 .. 2

\* ------------------------------------------------------------------ config
DefaultLimit == 10

\* ------------------------------------------------------------------ roles
\* A role name is a sequence of characters, so that str.lower() is computed.
Chef == <<"C", "h", "e", "f">>
HeadChef == <<"H", "e", "a", "d", " ", "C", "h", "e", "f">>
Owner == <<"O", "w", "n", "e", "r">>
chefLower == <<"c", "h", "e", "f">>
OWNERUpper == <<"O", "W", "N", "E", "R">>
headChefMixed == <<"h", "E", "A", "D", " ", "c", "h", "e", "f">>
Cook == <<"C", "o", "o", "k">>
Everyone == <<"@", "e", "v", "e", "r", "y", "o", "n", "e">>

RoleNames == {Chef, HeadChef, Owner, chefLower, OWNERUpper, headChefMixed, Cook, Everyone}

UpperToLower ==
    [A |-> "a", B |-> "b", C |-> "c", D |-> "d", E |-> "e", F |-> "f", G |-> "g",
     H |-> "h", I |-> "i", J |-> "j", K |-> "k", L |-> "l", M |-> "m", N |-> "n",
     O |-> "o", P |-> "p", Q |-> "q", R |-> "r", S |-> "s", T |-> "t", U |-> "u",
     V |-> "v", W |-> "w", X |-> "x", Y |-> "y", Z |-> "z"]

lower(s) ==
    [i \in 1 .. Len(s) |-> IF s[i] \in DOMAIN UpperToLower THEN UpperToLower[s[i]] ELSE s[i]]

\* name.lower() of every role name in use
Lowered == [n \in RoleNames |-> lower(n)]

\* the role check comparing the names as they are written
_member_has_any_roles_exact(roles, role_names) == ~(roles \cap role_names = {})

\* _member_has_any_roles(member, role_names): member.roles given as a set of names
_member_has_any_roles(roles, role_names) ==
    LET wanted == {Lowered[n] : n \in role_names}
        current == {Lowered[r] : r \in roles}
    IN  ~(current \cap wanted = {})

AddRoles == {Chef}
AdminRoles == {HeadChef, Owner}

\* ------------------------------------------------------------------ state
VARIABLES
    rows,      \* the orders table: a set of Order rows
    nextId,    \* next value of the primary-key sequence
    th,        \* per worker thread: the open session of a store helper
    reply,     \* the message the last step sent to the caller (NoReply when it sent none)
    adds,      \* per (guild, user): the increments committed so far (counted in SpecAdd)
    authz      \* the last direct call of _member_has_any_roles (made in SpecAuth)

vars == <<rows, nextId, th, reply, adds, authz>>

Max(a, b) == IF a >= b THEN a ELSE b

Pairs == Guilds \X Users

Order(id, guild_id, user_id, display_name, count) ==
    [id |-> id, guild_id |-> guild_id, user_id |-> user_id,
     display_name |-> display_name, count |-> count]

\* select(Order).where(Order.guild_id == g, Order.user_id == u)
SelectPair(g, u) == {r \in rows : r.guild_id = g /\ r.user_id = u}

\* the SELECT without its WHERE clause
SelectAll(g) == rows

\* select(Order).where(Order.guild_id == g)
SelectGuild(g) == {r \in rows : r.guild_id = g}

ById(id) == {r \in rows : r.id = id}

\* the table without its UniqueConstraint
uq_missing(g, u) == TRUE

\* UniqueConstraint("guild_id", "user_id"): may a row for (g, u) be inserted?
uq_guild_user(g, u) == SelectPair(g, u) = {}

NoReply == [kind |-> "None"]
NoAuth == [called |-> FALSE]

\* a thread outside a store helper
Idle == [pc |-> "idle", op |-> "none", g |-> 0, u |-> 0, arg |-> 0, name |-> "",
         snap |-> {}, rid |-> 0, val |-> 0]

Init ==
    /\ rows = {}
    /\ nextId = 1
    /\ th = [t \in Threads |-> Idle]
    /\ reply = NoReply
    /\ adds = [p \in Pairs |-> 0]
    /\ authz = NoAuth

\* ------------------------------------------------------------------ sessions
Session(op, g, u, arg, name, snap) ==
    [pc |-> "commit", op |-> op, g |-> g, u |-> u, arg |-> arg, name |-> name,
     snap |-> snap, rid |-> 0, val |-> 0]

\* after s.commit(): the session holds the row (by primary key) with its attributes expired;
\* val keeps the count this session assigned to row.count
Returning(s, id, newc) ==
    [pc |-> "ret", op |-> s.op, g |-> s.g, u |-> s.u, arg |-> s.arg, name |-> "",
     snap |-> {}, rid |-> id, val |-> newc]

Open(t, s) ==
    /\ th' = [th EXCEPT ![t] = s]
    /\ reply' = NoReply

\* the handler replies and ends; a store helper has left its "with SessionLocal()" block
Reply(t, out) ==
    /\ reply' = out
    /\ th' = [th EXCEPT ![t] = Idle]

\* an exception (error, raised in the helper op) leaves the with block: the session rolls
\* back, nothing is written
StoreError(t, op, error) ==
    /\ Reply(t, [kind |-> "StoreError", op |-> op, error |-> error])
    /\ UNCHANGED <<rows, nextId>>

\* scalar_one_or_none() on the SELECT of one (guild, user) pair
SelectOne(t, op, g, u, arg, name) ==
    LET found == SelectPair(g, u)
    IN  IF Cardinality(found) > 1
        THEN StoreError(t, op, "MultipleResultsFound")
        ELSE /\ Open(t, Session(op, g, u, arg, name, found))
             /\ UNCHANGED <<rows, nextId>>

SnapCount(snap) == IF snap = {} THEN 0 ELSE (CHOOSE r \in snap : TRUE).count

\* the increment without its clamp
AddedCountUnclamped(snap, delta) == SnapCount(snap) + delta

\* row.count = max(0, (row.count or 0) + delta)
AddedCount(snap, delta) == Max(0, SnapCount(snap) + delta)

\* the set without its clamp
SetCountRaw(value) == value

\* row.count = max(0, int(value))
SetCountValue(value) == Max(0, value)

\* the refresh without its test for an empty name
NewNameAlways(old, display_name) == display_name

\* if display_name and row.display_name != display_name: row.display_name = display_name
NewName(old, display_name) ==
    IF display_name # "" /\ old # display_name THEN display_name ELSE old

\* the UPDATE of the flush: it writes the attributes whose value changed, WHERE orders.id = :id
Update(old, newc, name) ==
    {IF r.id = old.id
     THEN [r EXCEPT !.count = IF newc # old.count THEN newc ELSE @,
                    !.display_name = IF name # old.display_name THEN name ELSE @]
     ELSE r : r \in rows}

\* s.commit() of _add_count / _set_count: flush the pending INSERT or UPDATE
Upsert(t, newc) ==
    LET s == th[t]
    IN  IF s.snap = {}
        THEN IF uq_guild_user(s.g, s.u)
             THEN /\ nextId <= MaxId
                  /\ rows' = rows \cup {Order(nextId, s.g, s.u, s.name, newc)}
                  /\ nextId' = nextId + 1
                  /\ th' = [th EXCEPT ![t] = Returning(s, nextId, newc)]
                  /\ reply' = NoReply
             ELSE StoreError(t, s.op, "IntegrityError")
        ELSE LET old == CHOOSE r \in s.snap : TRUE
                 name == NewName(old.display_name, s.name)
                 dirty == newc # old.count \/ name # old.display_name
             IN  IF dirty /\ ById(old.id) = {}
                 THEN StoreError(t, s.op, "StaleDataError")
                 ELSE /\ rows' = IF dirty THEN Update(old, newc, name) ELSE rows
                      /\ th' = [th EXCEPT ![t] = Returning(s, old.id, newc)]
                      /\ reply' = NoReply
                      /\ UNCHANGED nextId

\* "return row.count": the commit expired the row, the read refreshes it by primary key
Refreshed(t, kind) ==
    LET cur == ById(th[t].rid)
    IN  IF cur = {}
        THEN StoreError(t, th[t].op, "ObjectDeletedError")
        ELSE /\ Reply(t, [kind |-> kind, g |-> th[t].g, who |-> th[t].u,
                          new_count |-> (CHOOSE r \in cur : TRUE).count])
             /\ UNCHANGED <<rows, nextId>>

\* ------------------------------------------------------------------ store helpers
_add_count(t, guild_id, user_id, delta, display_name) ==
    /\ AddedCount(SelectPair(guild_id, user_id), delta) <= MaxCount
    /\ SelectOne(t, "add", guild_id, user_id, delta, display_name)

AddCommit(t) ==
    /\ th[t].pc = "commit" /\ th[t].op = "add"
    /\ Upsert(t, AddedCount(th[t].snap, th[t].arg))
    /\ UNCHANGED authz

AddReturn(t) ==
    /\ th[t].pc = "ret" /\ th[t].op = "add"
    /\ Refreshed(t, "OrderAdded")
    /\ UNCHANGED authz

_set_count(t, guild_id, user_id, value, display_name) ==
    SelectOne(t, "set", guild_id, user_id, value, display_name)

SetCommit(t) ==
    /\ th[t].pc = "commit" /\ th[t].op = "set"
    /\ Upsert(t, SetCountValue(th[t].arg))
    /\ UNCHANGED authz

SetReturn(t) ==
    /\ th[t].pc = "ret" /\ th[t].op = "set"
    /\ Refreshed(t, "ValueSet")
    /\ UNCHANGED authz

_remove_user(t, guild_id, user_id) ==
    LET found == SelectPair(guild_id, user_id)
    IN  IF Cardinality(found) > 1
        THEN StoreError(t, "remove", "MultipleResultsFound")
        ELSE IF found = {}
        THEN /\ Reply(t, [kind |-> "NotFound"])
             /\ UNCHANGED <<rows, nextId>>
        ELSE /\ Open(t, Session("remove", guild_id, user_id, 0, "", found))
             /\ UNCHANGED <<rows, nextId>>

\* a remove that reports the deletion and leaves the row in the table
RemoveCommitKept(t) ==
    /\ th[t].pc = "commit" /\ th[t].op = "remove"
    /\ Reply(t, [kind |-> "Removed", g |-> th[t].g, who |-> th[t].u])
    /\ UNCHANGED <<rows, nextId, authz>>

\* s.delete(row); s.commit(): DELETE ... WHERE orders.id = :id (no row matched is a warning)
RemoveCommit(t) ==
    /\ th[t].pc = "commit" /\ th[t].op = "remove"
    /\ LET old == CHOOSE r \in th[t].snap : TRUE
       IN  /\ rows' = {r \in rows : r.id # old.id}
           /\ Reply(t, [kind |-> "Removed", g |-> th[t].g, who |-> th[t].u])
    /\ UNCHANGED <<nextId, authz>>

_reset_all(t, guild_id) ==
    /\ Open(t, Session("reset", guild_id, 0, 0, "", SelectGuild(guild_id)))
    /\ UNCHANGED <<rows, nextId>>

\* a reset whose UPDATEs are each committed on their own: the ones before the failing
\* one stay
ResetCommitPartial(t) ==
    /\ th[t].pc = "commit" /\ th[t].op = "reset"
    /\ LET dirty == {r.id : r \in {x \in th[t].snap : x.count # 0}}
           live == {r.id : r \in rows}
       IN  /\ rows' = {IF r.id \in dirty THEN [r EXCEPT !.count = 0] ELSE r : r \in rows}
           /\ IF ~(dirty \subseteq live)
              THEN Reply(t, [kind |-> "StoreError", op |-> "reset", error |-> "StaleDataError"])
              ELSE Reply(t, [kind |-> "AllReset", n |-> Cardinality(th[t].snap)])
           /\ UNCHANGED nextId
    /\ UNCHANGED authz

\* a reset that deletes the rows it read
ResetCommitDeleting(t) ==
    /\ th[t].pc = "commit" /\ th[t].op = "reset"
    /\ rows' = {r \in rows : r.id \notin {x.id : x \in th[t].snap}}
    /\ Reply(t, [kind |-> "AllReset", n |-> Cardinality(th[t].snap)])
    /\ UNCHANGED <<nextId, authz>>

\* _reset_all returning the number of rows its UPDATE changed
ResetCommitChanged(t) ==
    /\ th[t].pc = "commit" /\ th[t].op = "reset"
    /\ LET dirty == {r.id : r \in {x \in th[t].snap : x.count # 0}}
           live == {r.id : r \in rows}
       IN  IF ~(dirty \subseteq live)
           THEN StoreError(t, "reset", "StaleDataError")
           ELSE /\ rows' = {IF r.id \in dirty THEN [r EXCEPT !.count = 0] ELSE r : r \in rows}
                /\ Reply(t, [kind |-> "AllReset", n |-> Cardinality(dirty)])
                /\ UNCHANGED nextId
    /\ UNCHANGED authz

\* r.count = 0 for the rows read; commit: UPDATE ... WHERE id of each row whose count changed
ResetCommit(t) ==
    /\ th[t].pc = "commit" /\ th[t].op = "reset"
    /\ LET dirty == {r.id : r \in {x \in th[t].snap : x.count # 0}}
           live == {r.id : r \in rows}
       IN  IF ~(dirty \subseteq live)
           THEN StoreError(t, "reset", "StaleDataError")
           ELSE /\ rows' = {IF r.id \in dirty THEN [r EXCEPT !.count = 0] ELSE r : r \in rows}
                /\ Reply(t, [kind |-> "AllReset", n |-> Cardinality(th[t].snap)])
                /\ UNCHANGED nextId
    /\ UNCHANGED authz

\* ORDER BY count DESC alone
OrderByCount(r, q) == r.count >= q.count

\* ORDER BY count DESC, user_id: r may precede q
OrderBy(r, q) == r.count > q.count \/ (r.count = q.count /\ r.user_id <= q.user_id)

\* the orders in which the database may return the rows of S
Sorted(S) ==
    {s \in [1 .. Cardinality(S) -> S] :
        /\ \A i, j \in DOMAIN s : i # j => s[i] # s[j]
        /\ \A i, j \in DOMAIN s : i < j => OrderBy(s[i], s[j])}

\* .limit(n)
Limit(s, n) == SubSeq(s, 1, IF n < Len(s) THEN n ELSE Len(s))

_top_n(t, guild_id, n) ==
    /\ \E s \in Sorted(SelectGuild(guild_id)) :
          Reply(t, [kind |-> "Leaderboard", g |-> guild_id, n |-> n, rows |-> Limit(s, n)])
    /\ UNCHANGED <<rows, nextId>>

\* ------------------------------------------------------------------ commands
\* Optional[...] arguments: <<>> is None, <<x>> is a value
NoArg == <<>>
Some(S) == {<<x>> : x \in S}
Optional(S) == {NoArg} \cup Some(S)

Said(t, out) ==
    /\ Reply(t, out)
    /\ UNCHANGED <<rows, nextId>>

\* the check without its role test
predicate_any_member(g, roles, role_names) ==
    IF g = NoGuild THEN <<[kind |-> "NotInCommunity"]>> ELSE <<>>

\* the check installed by has_any_named_roles(*role_names): the reply it sends when it
\* fails, <<>> when it passes
predicate(g, roles, role_names) ==
    IF g = NoGuild
    THEN <<[kind |-> "NotInCommunity"]>>
    ELSE IF ~_member_has_any_roles(roles, role_names)
    THEN <<[kind |-> "Forbidden", required |-> role_names]>>
    ELSE <<>>

add_cmd(t, g, roles, author, display) ==
    /\ th[t].pc = "idle"
    /\ LET denied == predicate(g, roles, AddRoles)
       IN  IF denied # <<>>
           THEN Said(t, denied[1])
           ELSE IF g = NoGuild
           THEN Said(t, [kind |-> "NotInCommunity"])
           ELSE _add_count(t, g, author, 1, display)
    /\ UNCHANGED authz

\* the command declares no parameter: what follows "!leaderboard" in the message (a limit)
\* is left unread
leaderboard_cmd(t, g, limit) ==
    /\ th[t].pc = "idle"
    /\ IF g = NoGuild
       THEN Said(t, [kind |-> "NotInCommunity"])
       ELSE _top_n(t, g, DefaultLimit)
    /\ UNCHANGED authz

remove_cmd(t, g, roles, user) ==
    /\ th[t].pc = "idle"
    /\ LET denied == predicate(g, roles, AdminRoles)
       IN  IF denied # <<>>
           THEN Said(t, denied[1])
           ELSE IF g = NoGuild
           THEN Said(t, [kind |-> "NotInCommunity"])
           ELSE IF user = NoArg
           THEN Said(t, [kind |-> "UsageError", command |-> "remove"])
           ELSE _remove_user(t, g, user[1])
    /\ UNCHANGED authz

\* !set testing the sign of the amount before the presence of the arguments
set_cmd_amount_first(t, g, roles, user, amount, display) ==
    /\ th[t].pc = "idle"
    /\ LET denied == predicate(g, roles, AdminRoles)
       IN  IF denied # <<>>
           THEN Said(t, denied[1])
           ELSE IF g = NoGuild
           THEN Said(t, [kind |-> "NotInCommunity"])
           ELSE IF amount # NoArg /\ amount[1] < 0
           THEN Said(t, [kind |-> "InvalidAmount"])
           ELSE IF user = NoArg \/ amount = NoArg
           THEN Said(t, [kind |-> "UsageError", command |-> "set"])
           ELSE _set_count(t, g, user[1], amount[1], display)
    /\ UNCHANGED authz

\* !set without its "Amount cannot be negative" test
set_cmd_any_amount(t, g, roles, user, amount, display) ==
    /\ th[t].pc = "idle"
    /\ LET denied == predicate(g, roles, AdminRoles)
       IN  IF denied # <<>>
           THEN Said(t, denied[1])
           ELSE IF user = NoArg \/ amount = NoArg
           THEN Said(t, [kind |-> "UsageError", command |-> "set"])
           ELSE _set_count(t, g, user[1], amount[1], display)
    /\ UNCHANGED authz

set_cmd(t, g, roles, user, amount, display) ==
    /\ th[t].pc = "idle"
    /\ LET denied == predicate(g, roles, AdminRoles)
       IN  IF denied # <<>>
           THEN Said(t, denied[1])
           ELSE IF g = NoGuild
           THEN Said(t, [kind |-> "NotInCommunity"])
           ELSE IF user = NoArg \/ amount = NoArg
           THEN Said(t, [kind |-> "UsageError", command |-> "set"])
           ELSE IF amount[1] < 0
           THEN Said(t, [kind |-> "InvalidAmount"])
           ELSE _set_count(t, g, user[1], amount[1], display)
    /\ UNCHANGED authz

resetall_cmd(t, g, roles) ==
    /\ th[t].pc = "idle"
    /\ LET denied == predicate(g, roles, AdminRoles)
       IN  IF denied # <<>>
           THEN Said(t, denied[1])
           ELSE IF g = NoGuild
           THEN Said(t, [kind |-> "NotInCommunity"])
           ELSE _reset_all(t, g)
    /\ UNCHANGED authz

\* ------------------------------------------------------------------ the bot
\* the role sets callers come with
Callers == {{Everyone, chefLower}, {Everyone, Cook, OWNERUpper}}

\* an input the handler does not read on this path takes one value
Reads(read, S) == IF read THEN S ELSE {CHOOSE x \in S : TRUE}

AddCmd(T, G, R, U, N) ==
    \E t \in T, g \in G \cup {NoGuild} : \E roles \in Reads(g # NoGuild, R) :
      \E author \in Members(g) \cap U :
        \E display \in Reads(predicate(g, roles, AddRoles) = <<>>, N) :
            add_cmd(t, g, roles, author, display)

LeaderboardCmd(T, G) ==
    \E t \in T, g \in G \cup {NoGuild}, limit \in Optional(Limits) : leaderboard_cmd(t, g, limit)

RemoveCmd(T, G, R, U) ==
    \E t \in T, g \in G \cup {NoGuild} : \E roles \in Reads(g # NoGuild, R) :
      \E user \in Optional(Members(g) \cap U) :
        remove_cmd(t, g, roles, user)

SetCmd(T, G, R, U, N) ==
    \E t \in T, g \in G \cup {NoGuild} : \E roles \in Reads(g # NoGuild, R) :
      \E user \in Optional(Members(g) \cap U), amount \in Optional(Values) :
        \E display \in Reads(/\ predicate(g, roles, AdminRoles) = <<>>
                             /\ user # NoArg /\ amount # NoArg, N) :
            set_cmd(t, g, roles, user, amount, display)

ResetallCmd(T, G, R) ==
    \E t \in T, g \in G \cup {NoGuild} : \E roles \in Reads(g # NoGuild, R) : resetall_cmd(t, g, roles)

AddCommits == \E t \in Threads : AddCommit(t)
AddReturns == \E t \in Threads : AddReturn(t)
SetCommits == \E t \in Threads : SetCommit(t)
SetReturns == \E t \in Threads : SetReturn(t)
RemoveCommits == \E t \in Threads : RemoveCommit(t)
ResetCommits == \E t \in Threads : ResetCommit(t)

StoreSteps ==
    \/ AddCommits
    \/ AddReturns
    \/ SetCommits
    \/ SetReturns
    \/ RemoveCommits
    \/ ResetCommits

\* the bot handling one invocation at a time
Next ==
    \/ AddCmd(OneThread, Guilds, Callers, Users, Names) /\ UNCHANGED adds
    \/ LeaderboardCmd(OneThread, Guilds) /\ UNCHANGED adds
    \/ RemoveCmd(OneThread, Guilds, Callers, Users) /\ UNCHANGED adds
    \/ SetCmd(OneThread, Guilds, Callers, Users, Names) /\ UNCHANGED adds
    \/ ResetallCmd(OneThread, Guilds, Callers) /\ UNCHANGED adds
    \/ StoreSteps /\ UNCHANGED adds

Spec == Init /\ [][Next]_vars

\* the bot handling two invocations concurrently, each store helper in its own thread
NextConc ==
    \/ AddCmd(Threads, OneGuild, Callers, OneUser, OneName) /\ UNCHANGED adds
    \/ LeaderboardCmd(Threads, OneGuild) /\ UNCHANGED adds
    \/ RemoveCmd(Threads, OneGuild, Callers, OneUser) /\ UNCHANGED adds
    \/ SetCmd(Threads, OneGuild, Callers, OneUser, OneName) /\ UNCHANGED adds
    \/ ResetallCmd(Threads, OneGuild, Callers) /\ UNCHANGED adds
    \/ StoreSteps /\ UNCHANGED adds

SpecConc == Init /\ [][NextConc]_vars

\* the bot handling one invocation at a time, in one guild
NextGate ==
    \/ AddCmd(OneThread, OneGuild, Callers, Users, OneName) /\ UNCHANGED adds
    \/ LeaderboardCmd(OneThread, OneGuild) /\ UNCHANGED adds
    \/ RemoveCmd(OneThread, OneGuild, Callers, Users) /\ UNCHANGED adds
    \/ SetCmd(OneThread, OneGuild, Callers, Users, OneName) /\ UNCHANGED adds
    \/ ResetallCmd(OneThread, OneGuild, Callers) /\ UNCHANGED adds
    \/ StoreSteps /\ UNCHANGED adds

SpecGate == Init /\ [][NextGate]_vars

\* the bot handling one invocation at a time, in one guild, on one member
NextDispatch ==
    \/ AddCmd(OneThread, OneGuild, Callers, OneUser, OneName) /\ UNCHANGED adds
    \/ LeaderboardCmd(OneThread, OneGuild) /\ UNCHANGED adds
    \/ RemoveCmd(OneThread, OneGuild, Callers, OneUser) /\ UNCHANGED adds
    \/ SetCmd(OneThread, OneGuild, Callers, OneUser, OneName) /\ UNCHANGED adds
    \/ ResetallCmd(OneThread, OneGuild, Callers) /\ UNCHANGED adds
    \/ StoreSteps /\ UNCHANGED adds

SpecDispatch == Init /\ [][NextDispatch]_vars


\* ------------------------------------------------------------------ the store, called directly
\* _add_count, _set_count, _remove_user, _reset_all and _top_n called one at a time with
\* any arguments
StoreAdd ==
    \E t \in OneThread, g \in Guilds, delta \in Deltas, name \in StoreNames :
        \E u \in Members(g) : th[t].pc = "idle" /\ _add_count(t, g, u, delta, name)

StoreSet ==
    \E t \in OneThread, g \in Guilds, value \in StoreValues, name \in StoreNames :
        \E u \in Members(g) : th[t].pc = "idle" /\ _set_count(t, g, u, value, name)

StoreRemove ==
    \E t \in OneThread, g \in Guilds :
        \E u \in Members(g) : th[t].pc = "idle" /\ _remove_user(t, g, u)

StoreReset == \E t \in OneThread, g \in Guilds : th[t].pc = "idle" /\ _reset_all(t, g)

StoreTopN ==
    \E t \in OneThread, g \in Guilds, n \in Limits : th[t].pc = "idle" /\ _top_n(t, g, n)

NextStore ==
    \/ StoreAdd /\ UNCHANGED <<adds, authz>>
    \/ StoreSet /\ UNCHANGED <<adds, authz>>
    \/ StoreRemove /\ UNCHANGED <<adds, authz>>
    \/ StoreReset /\ UNCHANGED <<adds, authz>>
    \/ StoreTopN /\ UNCHANGED <<adds, authz>>
    \/ StoreSteps /\ UNCHANGED adds

SpecStore == Init /\ [][NextStore]_vars

\* the store helpers called by the threads T on the members of the guilds G
CallAdd(T, G, D, N) ==
    \E t \in T, g \in G, delta \in D, name \in N :
        \E u \in Members(g) : th[t].pc = "idle" /\ _add_count(t, g, u, delta, name)

CallSet(T, G, V, N) ==
    \E t \in T, g \in G, value \in V, name \in N :
        \E u \in Members(g) : th[t].pc = "idle" /\ _set_count(t, g, u, value, name)

CallRemove(T, G) ==
    \E t \in T, g \in G :
        \E u \in Members(g) : th[t].pc = "idle" /\ _remove_user(t, g, u)

CallReset(T, G) == \E t \in T, g \in G : th[t].pc = "idle" /\ _reset_all(t, g)

CallTopN(T, G, L) ==
    \E t \in T, g \in G, n \in L : th[t].pc = "idle" /\ _top_n(t, g, n)

\* the store helpers called by two threads at once, on the two members of one guild
ParDeltas == {1}
ParValues == {0}
ParLimits == {1}

NextPar ==
    \/ CallAdd(Threads, OneGuild, ParDeltas, OneName) /\ UNCHANGED <<adds, authz>>
    \/ CallSet(Threads, OneGuild, ParValues, OneName) /\ UNCHANGED <<adds, authz>>
    \/ CallRemove(Threads, OneGuild) /\ UNCHANGED <<adds, authz>>
    \/ CallReset(Threads, OneGuild) /\ UNCHANGED <<adds, authz>>
    \/ CallTopN(Threads, OneGuild, ParLimits) /\ UNCHANGED <<adds, authz>>
    \/ StoreSteps /\ UNCHANGED adds

SpecPar == Init /\ [][NextPar]_vars

\* the store helpers called one at a time, with any arguments, on the members of one guild
NextSeq ==
    \/ CallAdd(OneThread, OneGuild, Deltas, StoreNames) /\ UNCHANGED <<adds, authz>>
    \/ CallSet(OneThread, OneGuild, StoreValues, StoreNames) /\ UNCHANGED <<adds, authz>>
    \/ CallRemove(OneThread, OneGuild) /\ UNCHANGED <<adds, authz>>
    \/ CallReset(OneThread, OneGuild) /\ UNCHANGED <<adds, authz>>
    \/ CallTopN(OneThread, OneGuild, Limits) /\ UNCHANGED <<adds, authz>>
    \/ StoreSteps /\ UNCHANGED adds

SpecSeq == Init /\ [][NextSeq]_vars

\* ------------------------------------------------------------------ concurrent add commands
\* only !add is invoked, by two threads; adds counts the increments that committed
Committed(t) == th[t].pc = "commit" /\ th'[t].pc = "ret"

CountAdds ==
    adds' = [p \in Pairs |->
                IF \E t \in Threads : Committed(t) /\ th[t].g = p[1] /\ th[t].u = p[2]
                THEN adds[p] + 1 ELSE adds[p]]

NextAdd ==
    \/ AddCmd(Threads, OneGuild, Callers, Users, OneName) /\ UNCHANGED adds
    \/ AddCommits /\ CountAdds
    \/ AddReturns /\ UNCHANGED adds

SpecAdd == Init /\ [][NextAdd]_vars

\* ------------------------------------------------------------------ the role check alone
RequiredSets == {{}, AddRoles, AdminRoles, {Owner}}
RoleSets == SUBSET {Chef, chefLower, OWNERUpper, headChefMixed, Cook, Everyone}

Authorize ==
    \E roles \in RoleSets, required \in RequiredSets :
        /\ authz' = [called |-> TRUE, roles |-> roles, required |-> required,
                     allowed |-> _member_has_any_roles(roles, required)]
        /\ UNCHANGED <<rows, nextId, th, reply, adds>>

NextAuth == Authorize

SpecAuth == Init /\ [][NextAuth]_vars


\* ================================================================== claims
Quiet == \A t \in Threads : th[t].pc = "idle"

\* the stored count of a pair, 0 when it has no record
CountOf(R, g, u) ==
    LET found == {r \in R : r.guild_id = g /\ r.user_id = u}
    IN  IF found = {} THEN 0 ELSE (CHOOSE r \in found : TRUE).count

\* thread t takes the commit step of its session
Commits(t, op) == th[t].pc = "commit" /\ th[t].op = op /\ th'[t] # th[t]

\* C1: when N add commands have run their increments on a pair (concurrently, from
\* count 0, nothing else touching the pair) and all have finished, the stored count
\* of the pair is N: no increment is lost.
C1_NoLostIncrement ==
    Quiet => \A p \in Pairs : CountOf(rows, p[1], p[2]) = adds[p]

\* C2: there is at most one record per (guild_id, user_id) pair, whatever the
\* interleaving of add, set, remove, resetall and leaderboard.
C2_OneRecordPerPair ==
    \A r, q \in rows : (r.guild_id = q.guild_id /\ r.user_id = q.user_id) => r = q

\* two first-time upserts raced on one absent pair: one has inserted, the other still
\* holds its empty read and is about to insert
C2_Witness ==
    \E t, t2 \in Threads :
        /\ th[t].pc = "ret" /\ th[t2].pc = "commit"
        /\ th[t2].op \in {"add", "set"} /\ th[t2].snap = {}
        /\ th[t].g = th[t2].g /\ th[t].u = th[t2].u
        /\ \E r \in rows : r.id = th[t].rid /\ r.guild_id = th[t].g /\ r.user_id = th[t].u

\* C3: a set(M, v) and an increment(M, d) on one pair serialize: when the increment
\* commits after the set (the set has committed and not yet returned, so v is the
\* stored count), the count it leaves is that of a serial order, max(0, v + d) or
\* max(0, v), never one computed from a count read before the set committed.
C3_SetIncrementSerialize ==
    [][\A t, t2 \in Threads :
          (/\ Commits(t, "add") /\ th'[t].pc = "ret"
           /\ th[t2].pc = "ret" /\ th[t2].op = "set"
           /\ th[t2].g = th[t].g /\ th[t2].u = th[t].u
           /\ SelectPair(th[t].g, th[t].u) # {}
           /\ CountOf(rows, th[t].g, th[t].u) = th[t2].val)
          => CountOf(rows', th[t].g, th[t].u)
                \in {Max(0, th[t2].val + th[t].arg), Max(0, th[t2].val)}]_vars

\* C4: an increment that found no record for its pair completes: its commit does not
\* fail on the uniqueness constraint, and it leaves one record for the pair, counting
\* one more than the increments committed before it (2 for the second of two
\* concurrent first-time increments).
C4_FirstIncrementsBothComplete ==
    [][\A t \in Threads :
          (Commits(t, "add") /\ th[t].snap = {})
          => /\ th'[t].pc = "ret"
             /\ Cardinality({r \in rows' : r.guild_id = th[t].g /\ r.user_id = th[t].u}) = 1
             /\ CountOf(rows', th[t].g, th[t].u) = CountOf(rows, th[t].g, th[t].u) + 1]_vars

\* C5: the stored count of every record is >= 0 in every reachable state, after
\* increments by any delta and sets to any value, interleaved with remove and reset_all.
C5_CountNonNegative == \A r \in rows : r.count >= 0

\* a negative delta on a count of 0, or a negative value, has been committed and clamped
C5_Witness ==
    \E t \in Threads :
        /\ th[t].pc = "ret" /\ th[t].arg < 0 /\ th[t].val = 0
        /\ \E r \in rows : r.id = th[t].rid /\ r.count = 0


\* the caller holds one of these roles, names compared without regard to case
HoldsAny(roles, names) == \E r \in roles, n \in names : lower(r) = lower(n)

NotChefs == {c \in Callers : ~HoldsAny(c, {Chef})}
NotAdmins == {c \in Callers : ~HoldsAny(c, {HeadChef, Owner})}

\* the step replies Forbidden with these roles and leaves the store and every session alone
Refused(required) ==
    /\ reply' = [kind |-> "Forbidden", required |-> required]
    /\ UNCHANGED <<rows, nextId, th>>

\* C6: a role-gated command invoked in a guild by a caller without a required role
\* ("Chef" for add; "Head Chef" or "Owner" for remove, set, resetall) replies Forbidden
\* with the required roles and opens no session and changes no record; the table
\* changes only in the commit of a session.
C6_RoleGate ==
    [][/\ \A t \in Threads, g \in Guilds :
            /\ \A roles \in NotChefs, author \in Users, display \in Names :
                  add_cmd(t, g, roles, author, display) => Refused({Chef})
            /\ \A roles \in NotAdmins :
                  /\ \A user \in Optional(Users) :
                        remove_cmd(t, g, roles, user) => Refused({HeadChef, Owner})
                  /\ \A user \in Optional(Users), amount \in Optional(Values), display \in Names :
                        set_cmd(t, g, roles, user, amount, display) => Refused({HeadChef, Owner})
                  /\ resetall_cmd(t, g, roles) => Refused({HeadChef, Owner})
       /\ rows' # rows => \E t \in Threads : th[t].pc = "commit" /\ th'[t] # th[t]]_vars

\* a caller was refused while the table held a record
C6_Witness == reply.kind = "Forbidden" /\ rows # {}

\* the role names are equal up to case
SameName(a, b) ==
    /\ Len(a) = Len(b)
    /\ \A i \in 1 .. Len(a) :
          \/ a[i] = b[i]
          \/ a[i] \in DOMAIN UpperToLower /\ UpperToLower[a[i]] = b[i]
          \/ b[i] \in DOMAIN UpperToLower /\ UpperToLower[b[i]] = a[i]

Shares(roles, required) == \E r \in roles, q \in required : SameName(r, q)

\* C7 (as claimed): the role check returns true iff the caller's roles and the required
\* roles share a name up to case, and returns true for every caller when no role is
\* required.
C7_AuthorizeEmptyAllows ==
    authz.called =>
        (authz.allowed <=> (Shares(authz.roles, authz.required) \/ authz.required = {}))

\* C7 (amended): the role check returns true iff the caller's roles and the required
\* roles share a name up to case; with no required role it returns false for every caller.
C7_AuthorizeIffShared ==
    authz.called => (authz.allowed <=> Shares(authz.roles, authz.required))

\* a caller was allowed on a role whose name matches only up to case
C7_Witness ==
    /\ authz.called /\ authz.allowed
    /\ authz.roles \cap authz.required = {}

\* C8: !set with a negative amount, from a caller holding "Head Chef" or "Owner", on a
\* member of the guild, replies InvalidAmount and does not reach the store: no session
\* is opened, no record is created or changed.
C8_NegativeSetRejected ==
    [][\A t \in Threads, g \in Guilds, roles \in Callers \ NotAdmins, user \in Some(Users),
          amount \in Some({v \in Values : v < 0}), display \in Names :
          set_cmd(t, g, roles, user, amount, display)
          => /\ reply' = [kind |-> "InvalidAmount"]
             /\ UNCHANGED <<rows, nextId, th>>]_vars

\* a negative amount was refused while the table held a record with a count above 0
C8_Witness == reply.kind = "InvalidAmount" /\ \E r \in rows : r.count > 0

\* the sequence lists rows by count descending, equal counts by user_id ascending
Ranked(s) ==
    \A i, j \in 1 .. Len(s) :
        i < j => \/ s[i].count > s[j].count
                 \/ s[i].count = s[j].count /\ s[i].user_id < s[j].user_id

\* C9: _top_n(n) returns at most n records, all records of that guild as stored, ranked
\* by count descending and user_id ascending, the highest-ranked ones, none when the
\* guild has no record; it leaves the table unchanged, and a second call with no write
\* in between returns the same sequence.
C9_TopN ==
    [][reply'.kind = "Leaderboard" =>
          LET s == reply'.rows
              mine == {r \in rows : r.guild_id = reply'.g}
          IN  /\ rows' = rows
              /\ Len(s) <= reply'.n
              /\ \A i \in 1 .. Len(s) : s[i] \in mine
              /\ Ranked(s)
              /\ Len(s) = (IF Cardinality(mine) < reply'.n THEN Cardinality(mine) ELSE reply'.n)
              /\ \A r \in mine : (\A i \in 1 .. Len(s) : s[i] # r) => Ranked(Append(s, r))
              /\ (mine = {} => s = <<>>)
              /\ (reply.kind = "Leaderboard" /\ reply.g = reply'.g /\ reply.n = reply'.n)
                    => reply'.rows = reply.rows]_vars

\* a guild with two records of equal count was asked for its top 1
C9_Witness ==
    /\ reply.kind = "Leaderboard" /\ reply.n = 1 /\ Len(reply.rows) = 1
    /\ \E r, q \in rows :
          /\ r # q /\ r.guild_id = reply.g /\ q.guild_id = reply.g
          /\ r.count = q.count /\ r.count > 0

\* C10: _reset_all on a guild sets the count of every record of the guild to 0, keeps
\* each of them with its display_name, leaves the other guild's records alone, and
\* returns the number of records the guild had when it was called.
C10_ResetAll ==
    [][\A t \in Threads :
          Commits(t, "reset") =>
              LET g == th[t].g
                  before == {r \in rows : r.guild_id = g}
              IN  /\ reply' = [kind |-> "AllReset", n |-> Cardinality(before)]
                  /\ rows' = {IF r.guild_id = g THEN [r EXCEPT !.count = 0] ELSE r : r \in rows}
                  /\ \A r \in before : \E q \in rows' :
                        /\ q.id = r.id /\ q.user_id = r.user_id
                        /\ q.display_name = r.display_name /\ q.count = 0]_vars

\* a guild with two records, one of them already at 0, has been reset
C10_Witness ==
    /\ reply.kind = "AllReset" /\ reply.n = 2
    /\ Cardinality(rows) = 2 /\ \A r \in rows : r.count = 0

\* the records of a pair in the table R
PairIn(R, g, u) == {r \in R : r.guild_id = g /\ r.user_id = u}

\* thread t, outside a session, takes a step
Calls(t) == th[t].pc = "idle"

\* C11: _remove_user on a member with a record deletes that record, and only it, and
\* returns True (Removed); on a member without a record it returns False (NotFound) and
\* changes nothing; a remove right after a remove of the same member returns False;
\* _top_n lists only members that have a record, so not a removed one, and a pair
\* without a record gets one only from the commit of an add or a set on that pair.
\* (Helpers called one at a time.)
C11_Remove ==
    [][\A t \in Threads, g \in Guilds, u \in Users :
          /\ (Calls(t) /\ PairIn(rows, g, u) = {} /\ _remove_user(t, g, u))
                => /\ reply' = [kind |-> "NotFound"]
                   /\ UNCHANGED <<rows, nextId, th>>
          /\ (Commits(t, "remove") /\ th[t].g = g /\ th[t].u = u)
                => /\ PairIn(rows, g, u) # {}
                   /\ rows' = rows \ PairIn(rows, g, u)
                   /\ reply' = [kind |-> "Removed", g |-> g, who |-> u]
          /\ (reply = [kind |-> "Removed", g |-> g, who |-> u] /\ Calls(t) /\ _remove_user(t, g, u))
                => reply' = [kind |-> "NotFound"]
          /\ (reply'.kind = "Leaderboard" /\ reply'.g = g /\ PairIn(rows, g, u) = {})
                => \A i \in 1 .. Len(reply'.rows) : reply'.rows[i].user_id # u
          /\ (PairIn(rows, g, u) = {} /\ PairIn(rows', g, u) # {})
                => \E t2 \in Threads :
                      /\ Commits(t2, "add") \/ Commits(t2, "set")
                      /\ th[t2].g = g /\ th[t2].u = u]_vars

\* a member was removed while the other member of the guild keeps a record
C11_Witness ==
    /\ reply.kind = "Removed"
    /\ PairIn(rows, reply.g, reply.who) = {}
    /\ \E r \in rows : r.guild_id = reply.g /\ r.count > 0

\* thread t takes the last step of its session, the read behind "return row.count"
Returns(t, op) == th[t].pc = "ret" /\ th[t].op = op /\ th'[t] # th[t]

\* C12: _set_count(M, v) followed by _add_count(M, d), nothing else in between: the set
\* stores and returns max(0, v); the increment called right after it reads that count,
\* stores max(0, max(0, v) + d) and returns the count it stored.
C12_SetThenIncrement ==
    [][\A t \in Threads, g \in Guilds, u \in Users :
          /\ (Commits(t, "set") /\ th[t].g = g /\ th[t].u = u)
                => /\ th'[t].pc = "ret"
                   /\ PairIn(rows', g, u) # {}
                   /\ CountOf(rows', g, u) = Max(0, th[t].arg)
          /\ (Returns(t, "set") /\ th[t].g = g /\ th[t].u = u)
                => /\ reply' = [kind |-> "ValueSet", g |-> g, who |-> u,
                                new_count |-> Max(0, th[t].arg)]
                   /\ rows' = rows
                   /\ CountOf(rows, g, u) = Max(0, th[t].arg)
          /\ \A d \in Deltas, name \in StoreNames :
                (/\ reply.kind = "ValueSet" /\ reply.g = g /\ reply.who = u
                 /\ Calls(t) /\ _add_count(t, g, u, d, name))
                => /\ th'[t].pc = "commit" /\ th'[t].arg = d
                   /\ SnapCount(th'[t].snap) = reply.new_count
                   /\ rows' = rows
          /\ (Commits(t, "add") /\ th[t].g = g /\ th[t].u = u)
                => /\ th'[t].pc = "ret"
                   /\ PairIn(rows', g, u) # {}
                   /\ CountOf(rows', g, u) = Max(0, SnapCount(th[t].snap) + th[t].arg)
                   /\ th'[t].val = CountOf(rows', g, u)
          /\ (Returns(t, "add") /\ th[t].g = g /\ th[t].u = u)
                => /\ reply' = [kind |-> "OrderAdded", g |-> g, who |-> u,
                                new_count |-> th[t].val]
                   /\ rows' = rows
                   /\ CountOf(rows, g, u) = th[t].val]_vars

\* an increment by -1 on a record holding 2 has stored 1 and is about to return it
C12_Witness ==
    \E t \in Threads :
        /\ th[t].pc = "ret" /\ th[t].op = "add" /\ th[t].arg = -1 /\ th[t].val = 1
        /\ CountOf(rows, th[t].g, th[t].u) = 1

\* C13: the leaderboard command, from any caller in a guild (it asks for no role),
\* invoked with a limit L returns the top L records of the guild (at most L), and
\* invoked without a limit returns the top 10.
C13_LeaderboardLimit ==
    [][\A t \in Threads, g \in Guilds, limit \in Optional(Limits \ {0}) :
          leaderboard_cmd(t, g, limit)
          => LET L == IF limit = NoArg THEN DefaultLimit ELSE limit[1]
                 mine == SelectGuild(g)
                 s == reply'.rows
             IN  /\ reply'.kind = "Leaderboard"
                 /\ Len(s) <= L
                 /\ Len(s) = (IF Cardinality(mine) < L THEN Cardinality(mine) ELSE L)
                 /\ \A i \in 1 .. Len(s) : s[i] \in mine
                 /\ Ranked(s)]_vars

\* the records that exist in the table R, whatever their count and name
Existing(R) == {<<r.id, r.guild_id, r.user_id>> : r \in R}

\* the replies of the invocations that must leave the set of records alone
KeepingReplies ==
    {"Leaderboard", "AllReset", "NotFound", "Forbidden", "UsageError", "InvalidAmount",
     "NotInCommunity"}

\* C14: a pair gets a record only in the commit of an add or a set on that pair, and
\* loses it only in the commit of a remove of that pair; a leaderboard, a resetall, a
\* remove of an absent member and every invocation refused with Forbidden, UsageError,
\* InvalidAmount or NotInCommunity leave the set of existing records unchanged.
C14_Lifecycle ==
    [][/\ \A g \in Guilds, u \in Users :
            /\ (PairIn(rows, g, u) = {} /\ PairIn(rows', g, u) # {})
                  => \E t \in Threads :
                        /\ Commits(t, "add") \/ Commits(t, "set")
                        /\ th[t].g = g /\ th[t].u = u
            /\ (PairIn(rows, g, u) # {} /\ PairIn(rows', g, u) = {})
                  => \E t \in Threads :
                        Commits(t, "remove") /\ th[t].g = g /\ th[t].u = u
       /\ Existing(rows') # Existing(rows)
            => \E t \in Threads : Commits(t, "add") \/ Commits(t, "set") \/ Commits(t, "remove")
       /\ reply'.kind \in KeepingReplies => Existing(rows') = Existing(rows)]_vars

\* a guild with records has been reset and still has them
C14_Witness ==
    /\ reply.kind = "AllReset" /\ reply.n > 0
    /\ Cardinality(Existing(rows)) >= reply.n

\* C15: a store helper that fails before its commit completes (the SELECT, or the flush
\* of the commit, raises) leaves the table exactly as it was and the other sessions as
\* they were; a failing _reset_all zeroes none of the records.
C15_FailureLeavesNoTrace ==
    [][\A t \in Threads :
          (/\ th[t].pc \in {"idle", "commit"} /\ th'[t].pc = "idle"
           /\ reply'.kind = "StoreError"
           /\ \A t2 \in Threads \ {t} : th'[t2] = th[t2])
          => rows' = rows]_vars

\* a _reset_all failed on a record removed since it read it, while a record keeps its count
C15_Witness ==
    /\ reply.kind = "StoreError" /\ reply.op = "reset"
    /\ \E r \in rows : r.count > 0

\* the records of the guilds other than g, and of the pairs other than (g, u)
OtherGuilds(R, g) == {r \in R : r.guild_id # g}
OtherPairs(R, g, u) == {r \in R : ~(r.guild_id = g /\ r.user_id = u)}

\* C16: a store helper called for guild g leaves the records of every other guild as
\* they are (existence, count, display_name): an add, set or remove writes only the
\* record of its (g, member) pair, a _reset_all only records of g, and _top_n returns
\* only records of g; a helper writes only in its commit.
C16_GuildIsolation ==
    [][/\ \A t \in Threads :
            /\ (th[t].pc = "commit" /\ th'[t] # th[t])
                  => /\ OtherGuilds(rows', th[t].g) = OtherGuilds(rows, th[t].g)
                     /\ th[t].op \in {"add", "set", "remove"}
                           => OtherPairs(rows', th[t].g, th[t].u)
                                 = OtherPairs(rows, th[t].g, th[t].u)
            /\ (th[t].pc = "ret" /\ th'[t] # th[t]) => rows' = rows
       /\ (\A t \in Threads : th[t].pc = "idle") => rows' = rows
       /\ reply'.kind = "Leaderboard"
            => \A i \in 1 .. Len(reply'.rows) : reply'.rows[i].guild_id = reply'.g]_vars

\* a guild with records has been reset while a record of the other guild keeps its count
C16_Witness ==
    /\ reply.kind = "AllReset" /\ reply.n > 0
    /\ \E r, q \in rows : r.guild_id # q.guild_id /\ r.count = 0 /\ q.count > 0

\* the step replies out and leaves the store and every session alone
Stopped(out) ==
    /\ reply' = out
    /\ UNCHANGED <<rows, nextId, th>>

\* thread t enters a store helper, or runs one to its end in this step
Stores(t) == (th[t].pc = "idle" /\ th'[t].pc = "commit") \/ reply'.kind \in {"NotFound", "Leaderboard"}

\* C17: an invocation is decided by the first failing check, in the order context,
\* authorization, arguments: outside a guild every command replies NotInCommunity
\* whatever the roles and arguments; in a guild a caller without a required role gets
\* Forbidden also when arguments are missing or the amount is negative; for an
\* authorized !set a missing target or amount gives UsageError (also when the amount
\* given is negative) and only then a negative amount gives InvalidAmount; a store
\* helper is entered only when all checks pass, and one step enters at most one.
C17_CheckOrder ==
    [][\A t \in OneThread :
          /\ \A roles \in Callers, user \in Optional(OneUser), amount \in Optional(Values) :
                /\ \A author \in OneUser :
                      add_cmd(t, NoGuild, roles, author, "ann")
                         => Stopped([kind |-> "NotInCommunity"])
                /\ \A limit \in Optional(Limits) :
                      leaderboard_cmd(t, NoGuild, limit) => Stopped([kind |-> "NotInCommunity"])
                /\ remove_cmd(t, NoGuild, roles, user) => Stopped([kind |-> "NotInCommunity"])
                /\ set_cmd(t, NoGuild, roles, user, amount, "ann")
                      => Stopped([kind |-> "NotInCommunity"])
                /\ resetall_cmd(t, NoGuild, roles) => Stopped([kind |-> "NotInCommunity"])
          /\ \A g \in OneGuild, user \in Optional(OneUser), amount \in Optional(Values) :
                /\ \A roles \in NotAdmins :
                      /\ remove_cmd(t, g, roles, user) => Refused(AdminRoles)
                      /\ set_cmd(t, g, roles, user, amount, "ann") => Refused(AdminRoles)
                /\ \A roles \in Callers \ NotAdmins :
                      /\ (user = NoArg /\ remove_cmd(t, g, roles, user))
                            => Stopped([kind |-> "UsageError", command |-> "remove"])
                      /\ ((user = NoArg \/ amount = NoArg) /\ set_cmd(t, g, roles, user, amount, "ann"))
                            => Stopped([kind |-> "UsageError", command |-> "set"])
                      /\ (/\ user # NoArg /\ amount # NoArg /\ amount[1] < 0
                          /\ set_cmd(t, g, roles, user, amount, "ann"))
                            => Stopped([kind |-> "InvalidAmount"])
                /\ \A roles \in Callers :
                      /\ (remove_cmd(t, g, roles, user) /\ Stores(t))
                            => roles \notin NotAdmins /\ user # NoArg
                      /\ (set_cmd(t, g, roles, user, amount, "ann") /\ Stores(t))
                            => /\ roles \notin NotAdmins /\ user # NoArg /\ amount # NoArg
                               /\ amount[1] >= 0
                      /\ (resetall_cmd(t, g, roles) /\ Stores(t)) => roles \notin NotAdmins
                      /\ \A author \in OneUser :
                            (add_cmd(t, g, roles, author, "ann") /\ Stores(t))
                               => roles \notin NotChefs
          /\ (th[t].pc = "idle" /\ th'[t].pc # "idle")
                => /\ th'[t].pc = "commit" /\ reply' = NoReply /\ rows' = rows
                   /\ \A t2 \in Threads \ {t} : th'[t2] = th[t2]]_vars

\* a !set lacking an argument was answered with its usage while the table held a record
C17_Witness ==
    /\ reply = [kind |-> "UsageError", command |-> "set"]
    /\ \E r \in rows : r.count > 0

\* C18: the count _add_count (_set_count) returns is the count its own commit wrote,
\* max(0, count read + delta) (max(0, value)), also when other sessions commit on the
\* pair between its commit and its return: the return never gives a count written by
\* a later commit and never fails because the record was removed after the commit.
C18_ReturnsPersisted ==
    [][\A t \in Threads :
          /\ (Commits(t, "add") /\ th'[t].pc = "ret")
                => th'[t].val = Max(0, SnapCount(th[t].snap) + th[t].arg)
          /\ (Commits(t, "set") /\ th'[t].pc = "ret") => th'[t].val = Max(0, th[t].arg)
          /\ (Returns(t, "add") \/ Returns(t, "set"))
                => /\ reply'.kind \in {"OrderAdded", "ValueSet"}
                   /\ reply'.new_count = th[t].val]_vars

\* the record thread t read at its SELECT is no longer in the table
ReadRemoved(t) == th[t].snap # {} /\ \A r \in th[t].snap : ById(r.id) = {}

\* C19: an increment (or set) and a remove of one pair that run concurrently both
\* complete without error, in one of the two serial orders: an increment (set) that
\* read the record before the remove committed does not fail at its commit and does
\* not drop its write, it leaves the record a fresh find-or-create would leave
\* (count max(0, 0 + delta), 1 for +1; max(0, value) for a set); the remove completes.
C19_IncrementRemoveSerialize ==
    [][\A t \in Threads :
          /\ (Commits(t, "add") /\ ReadRemoved(t))
                => /\ th'[t].pc = "ret"
                   /\ PairIn(rows', th[t].g, th[t].u) # {}
                   /\ CountOf(rows', th[t].g, th[t].u)
                         = Max(0, CountOf(rows, th[t].g, th[t].u) + th[t].arg)
          /\ (Commits(t, "set") /\ ReadRemoved(t))
                => /\ th'[t].pc = "ret"
                   /\ PairIn(rows', th[t].g, th[t].u) # {}
                   /\ CountOf(rows', th[t].g, th[t].u) = Max(0, th[t].arg)
          /\ Commits(t, "remove")
                => reply' = [kind |-> "Removed", g |-> th[t].g, who |-> th[t].u]]_vars

\* every record of R' is a record of R with the display_name it had
NamesKept(R) == \A r \in rows' : \E q \in R : q.id = r.id /\ q.display_name = r.display_name

\* C20: the commit of an add or a set with a non-empty display name leaves the record
\* of its pair with that name, created or overwritten; with an empty name an existing
\* record keeps the name it had; the records of the other pairs keep theirs, and a
\* remove, a _reset_all and a _top_n change no display_name. (Helpers called one at a
\* time.)
C20_DisplayName ==
    [][/\ \A t \in Threads :
            (Commits(t, "add") \/ Commits(t, "set"))
            => LET g == th[t].g
                   u == th[t].u
                   was == PairIn(rows, g, u)
                   now == PairIn(rows', g, u)
               IN  /\ now # {}
                   /\ th[t].name # "" => \A r \in now : r.display_name = th[t].name
                   /\ (th[t].name = "" /\ was # {})
                         => \A r \in now : \E q \in was :
                               q.id = r.id /\ q.display_name = r.display_name
                   /\ \A r \in OtherPairs(rows', g, u) : \E q \in rows :
                         q.id = r.id /\ q.display_name = r.display_name
       /\ (\A t \in Threads : ~(Commits(t, "add") \/ Commits(t, "set"))) => NamesKept(rows)]_vars

\* an add or a set has returned: its record carries the name bob, the guild's other
\* record another name
C20_Witness ==
    /\ reply.kind \in {"OrderAdded", "ValueSet"}
    /\ \E r, q \in rows :
          /\ r.guild_id = reply.g /\ r.user_id = reply.who /\ r.display_name = "bob"
          /\ q.guild_id = reply.g /\ q.user_id # reply.who /\ q.display_name # "bob"

====
